---- MODULE Spec2Model ----
(***************************************************************************)
(* Model of src/src/App.jsx: the App component's startDiagnosis /          *)
(* stopDiagnosis handlers, the chunked read loop, the per-line             *)
(* classification and the React state it drives.                           *)
(*                                                                         *)
(* Text is a sequence of symbols.  Each symbol stands for a fixed piece    *)
(* of text, so that the regular expressions of the source can be           *)
(* evaluated symbol by symbol:                                             *)
(*   "NL"    the line terminator '\n'                                      *)
(*   "SP"    one blank                                                     *)
(*   "DATA"  the literal 'data: '                                          *)
(*   "ESC"   one SGR colour sequence  ESC [ digits/semicolons m            *)
(*   "MARKU" the marker '<chart> Differential Diagnosis Updated'; its      *)
(*           first character is a glyph of the status class (line 140)     *)
(*   "MARKT" the marker '<U+FFFD> TOP DIFFERENTIAL DIAGNOSES'              *)
(*   "P1".."P4"  one '- Label: NN%' / 'N. Label  Probability: NN%' item    *)
(*   "AGENT" the literal 'Agent Name:'                                     *)
(*   "A","B" a name word, "SO" the words 'System Orchestrator'             *)
(*   "X","Y" a five-letter word of content                                 *)
(*   "EMO"   a status glyph (two UTF-16 units, two transport units)        *)
(*   "BOX"   a box-drawing character, "DASH" the hyphen '-'                *)
(*   "LONG"  150 letters of running text                                   *)
(* On the wire "EMO" travels as the two units "E1","E2"; every other       *)
(* symbol is one unit.                                                     *)
(***************************************************************************)
EXTENDS Integers, Sequences, FiniteSets, TLC

\* ------------------------------------------------------------------ bounds
\* Number of lines the transport delivers in one behaviour (all sessions).
MaxLines == 3
\* Number of startDiagnosis invocations that pass validation.
MaxSessions == 2

\* ------------------------------------------------------- program constants
\* matches.slice(0, 3)
MaxItems == 3
\* /^.{0,5}[...]/ : at most five characters before the glyph
StatusGlyphOffset == 5
\* content.length < 150
StatusMaxLen == 150

\* ------------------------------------------------------------- option type
None == <<>>
Some(x) == <<x>>

\* -------------------------------------------------------------- sequences
RECURSIVE SelectSeqNot(_, _)
\* s without the symbols of set S   (String.replace(/[S]/g, ''))
SelectSeqNot(s, S) ==
  IF s = <<>> THEN <<>>
  ELSE IF Head(s) \in S THEN SelectSeqNot(Tail(s), S)
       ELSE <<Head(s)>> \o SelectSeqNot(Tail(s), S)

IsPrefix(p, s) == Len(p) <= Len(s) /\ SubSeq(s, 1, Len(p)) = p

Last(s) == s[Len(s)]
Front(s) == SubSeq(s, 1, Len(s) - 1)

\* ---------------------------------------------------------- symbol classes
Whitespace == {"SP"}
BoxChars == {"BOX"}
Filler == {"SP", "DASH"}
NameChars == {"A", "B", "SO", "X", "Y", "LONG", "SP", "DASH"}
StatusGlyphs == {"EMO", "MARKU"}
Markers == {"MARKU", "MARKT"}
PairSyms == {"P1", "P2", "P3", "P4"}

\* String.length of the text a symbol stands for (UTF-16 units)
Width(t) ==
  CASE t \in {"SP", "BOX", "DASH", "NL"} -> 1
    [] t = "EMO" -> 2
    [] t \in {"A", "B"} -> 3
    [] t \in {"X", "Y"} -> 5
    [] t = "DATA" -> 6
    [] t = "ESC" -> 5
    [] t = "AGENT" -> 11
    [] t \in PairSyms -> 12
    [] t = "SO" -> 19
    [] t = "MARKT" -> 28
    [] t = "MARKU" -> 33
    [] t = "LONG" -> 150
    [] OTHER -> 1

RECURSIVE Length(_)
Length(s) == IF s = <<>> THEN 0 ELSE Width(Head(s)) + Length(Tail(s))

\* ------------------------------------------------------------ TextDecoder
\* decoder.decode(value, {stream: true}): a unit sequence is turned into
\* text; an incomplete multi-unit character at the end of a chunk is kept
\* in the decoder and completed by the next chunk.
RECURSIVE DecodeUnits(_, _)
DecodeUnits(pending, units) ==
  IF units = <<>> THEN [text |-> <<>>, pending |-> pending]
  ELSE LET u == Head(units)
           rest == Tail(units)
       IN IF pending = <<"E1">>
          THEN LET r == DecodeUnits(<<>>, rest)
               IN IF u = "E2"
                  THEN [text |-> <<"EMO">> \o r.text, pending |-> r.pending]
                  ELSE LET r2 == DecodeUnits(<<>>, units)
                       IN [text |-> <<"BAD">> \o r2.text, pending |-> r2.pending]
          ELSE IF u = "E1" THEN DecodeUnits(<<"E1">>, rest)
          ELSE LET r == DecodeUnits(<<>>, rest)
               IN [text |-> <<IF u = "E2" THEN "BAD" ELSE u>> \o r.text,
                   pending |-> r.pending]

\* The server's encoding of a text (UTF-8 encoding of the response body).
RECURSIVE Encode(_)
Encode(s) ==
  IF s = <<>> THEN <<>>
  ELSE (IF Head(s) = "EMO" THEN <<"E1", "E2">> ELSE <<Head(s)>>) \o Encode(Tail(s))

\* ------------------------------------------------------- line reassembly
RECURSIVE Split(_)
\* String.split('\n'): always at least one piece
Split(s) ==
  IF \A i \in 1..Len(s) : s[i] # "NL" THEN <<s>>
  ELSE LET k == CHOOSE i \in 1..Len(s) :
                  s[i] = "NL" /\ \A j \in 1..(i - 1) : s[j] # "NL"
       IN <<SubSeq(s, 1, k - 1)>> \o Split(SubSeq(s, k + 1, Len(s)))

\* --------------------------------------------------------- classification
RECURSIVE TrimLeft(_)
TrimLeft(s) ==
  IF s # <<>> /\ Head(s) \in Whitespace THEN TrimLeft(Tail(s)) ELSE s

RECURSIVE TrimRight(_)
TrimRight(s) ==
  IF s # <<>> /\ Last(s) \in Whitespace THEN TrimRight(Front(s)) ELSE s

\* String.trim()
Trim(s) == TrimRight(TrimLeft(s))

\* trimmedLine.startsWith('data: '): the blank that ends 'data: ' is lost to
\* trim() when nothing follows it.
StartsWithData(trimmedLine) ==
  Len(trimmedLine) > Len(<<"DATA">>) /\ Head(trimmedLine) = "DATA"

\* str.replace(/\u001b\[[0-9;]*m/g, '')
cleanAnsi(str) == SelectSeqNot(str, {"ESC"})

\* a payload from which the colour sequences are not removed
ContentKeepsAnsi(trimmedLine) == Trim(Tail(trimmedLine))

\* cleanAnsi(trimmedLine.slice(6).trim()): 'data: ' is the first symbol
ContentOf(trimmedLine) == cleanAnsi(Trim(Tail(trimmedLine)))

\* content.includes('... TOP DIFFERENTIAL DIAGNOSES') ||
\* content.includes('... Differential Diagnosis Updated')
HasMarker(content) == \E i \in 1..Len(content) : content[i] \in Markers

\* m[1].trim() and m[2] of one match of dxRegex
PairLabel(p) ==
  CASE p = "P1" -> "Lupus" [] p = "P2" -> "Flu" [] p = "P3" -> "Gout"
    [] OTHER -> "Cold"
PairDigits(p) ==
  CASE p = "P1" -> "42" [] p = "P2" -> "30" [] p = "P3" -> "20"
    [] OTHER -> "8"

\* [...content.matchAll(dxRegex)]
dxMatches(content) == SelectSeq(content, LAMBDA t : t \in PairSyms)

\* a map over all matches, without slice(0, 3)
allDiagnoses(matches) ==
  [i \in 1..Len(matches) |-> [diagnosis |-> PairLabel(matches[i]),
                              probability |-> PairDigits(matches[i]) \o "%"]]

\* matches.slice(0, 3).map(m => ({diagnosis: m[1].trim(), probability: m[2] + '%'}))
topDiagnoses(matches) ==
  LET n == IF Len(matches) < MaxItems THEN Len(matches) ELSE MaxItems
  IN [i \in 1..n |-> [diagnosis |-> PairLabel(matches[i]),
                      probability |-> PairDigits(matches[i]) \o "%"]]

\* content.match(/Agent Name:\s*([a-zA-Z\.\- ]+)/): the run of name
\* characters after the first 'Agent Name:' that has one; None if no match.
RECURSIVE NameRun(_)
NameRun(s) ==
  IF s # <<>> /\ Head(s) \in NameChars THEN <<Head(s)>> \o NameRun(Tail(s))
  ELSE <<>>

agentMatch(content) ==
  LET hits == {i \in 1..Len(content) :
                 content[i] = "AGENT"
                 /\ NameRun(SubSeq(content, i + 1, Len(content))) # <<>>}
  IN IF hits = {} THEN None
     ELSE LET i == CHOOSE k \in hits : \A j \in hits : k <= j
          IN Some(Trim(NameRun(SubSeq(content, i + 1, Len(content)))))

\* content.match(/^.{0,5}[<status glyphs>]/)
isStatus(content) ==
  \E i \in 1..Len(content) :
    content[i] \in StatusGlyphs
    /\ Length(SubSeq(content, 1, i - 1)) <= StatusGlyphOffset

\* isStatus && content.length < 150 && !content.includes('Agent Name')
IsStatusLine(content) ==
  /\ isStatus(content)
  /\ Length(content) < StatusMaxLen
  /\ \A i \in 1..Len(content) : content[i] # "AGENT"

\* content.replace(/[<box-drawing characters>]/g, '')
StripBox(content) == SelectSeqNot(content, BoxChars)

\* !cleanContent.replace(/[\s\-_]/g, '').length
IsBorderOnly(content) == SelectSeqNot(StripBox(content), Filler) = <<>>


\* ------------------------------------------------------------------ state
VARIABLES
  messages,            \* useState([])    as of the last render
  differential,        \* useState(null)  as of the last render
  isStreaming,         \* useState(false) as of the last render
  error,               \* useState(null)  as of the last render
  queue,               \* state updates enqueued and not yet rendered
  abortControllerRef,  \* useRef(null): 0, or the invocation whose controller it holds
  loops,               \* the locals of each invocation of startDiagnosis
  nStarted,            \* invocations that passed validation
  fed,                 \* transport: the units of the response body read so far
  used                 \* transport: lines delivered to earlier invocations

vars == <<messages, differential, isStreaming, error, queue,
          abortControllerRef, loops, nStarted, fed, used>>

Sessions == 1..MaxSessions

NoError == "null"
ValidationError == "Please fill in the required fields."
BackendError == "Failed to connect to backend"
StoppedText == <<"STOPPED">>
Orchestrator == <<"SO">>

\* the locals of an invocation that has not started
IdleLoop ==
  [pc |-> "none", aborted |-> FALSE, body |-> None, decoder |-> <<>>,
   buffer |-> <<>>, currentAgentName |-> None, lastMessageId |-> None,
   nid |-> 0, lineNo |-> 0]

Running == {"fetch", "read"}
Terminal == {"completed", "canceled", "failed"}

\* ------------------------------------------------------ the input catalogue
\* The lines the backend may send (without their terminator).
Lines ==
  { <<"DATA", "AGENT", "SP", "A", "BOX">>,
    <<"DATA", "AGENT", "B">>,
    <<"DATA", "EMO", "X">>,
    <<"DATA", "X">>,
    <<"SP", "DATA", "ESC", "BOX", "Y", "SP">>,
    <<"DATA", "BOX", "DASH">>,
    <<"DATA", "MARKU", "P1">>,
    <<"DATA", "MARKT", "P2", "P3", "P4", "P1">>,
    <<"DATA", "MARKU", "P2", "AGENT", "A">>,
    <<"X">> }

\* The lines sent where the life cycle of an invocation is studied.
FewLines ==
  { <<"DATA", "AGENT", "SP", "A", "BOX">>,
    <<"DATA", "X">>,
    <<"DATA", "EMO", "X">>,
    <<"DATA", "MARKU", "P1">> }

\* the form values startDiagnosis may find
Inputs == [initial_info : {"", "x"}, full_case : {"", "x"}]

\* ------------------------------------------------------------ transport
\* The lines of the response body begun so far.
Started(units) ==
  Len(Split(units)) - 1 + (IF Last(Split(units)) = <<>> THEN 0 ELSE 1)

RECURSIVE Chunks(_, _, _)
\* The chunks reader.read() may resolve with, when the body read so far ends
\* in the unterminated piece p and room more lines may be begun: p extended
\* within a line of the catalogue, or completed and followed by more.
Chunks(catalogue, p, room) ==
  LET fits == {l \in {Encode(x) : x \in catalogue} : IsPrefix(p, l)}
      more == IF p = <<>> THEN room - 1 ELSE room
  IN {<<>>}
     \cup (IF more < 0 THEN {}
           ELSE UNION {{SubSeq(l, Len(p) + 1, j) : j \in Len(p)..Len(l)} :
                         l \in fits}
                \cup UNION {{SubSeq(l, Len(p) + 1, Len(l)) \o <<"NL">> \o c :
                               c \in Chunks(catalogue, <<>>, more)} : l \in fits})

\* ------------------------------------------------------ the update queue
\* The id a status turn takes when its updater runs: Date.now() + Math.random()
FreshId(kind, prev) == Some(<<kind, 0, Len(prev) + 1>>)

NameOf(opt) == IF opt = None THEN <<"null">> ELSE opt[1]

\* a content updater that overwrites the content with the new line
AppendContentReplace(prev, lastMessageId, cleanContent) ==
  LET found == {i \in 1..Len(prev) : prev[i].id = lastMessageId}
  IN IF found = {} THEN prev
     ELSE LET msgIndex == CHOOSE i \in found : \A j \in found : i <= j
          IN [prev EXCEPT ![msgIndex].content = <<cleanContent>>]

\* a content updater that appends without looking at the last line
AppendContentAlways(prev, lastMessageId, cleanContent) ==
  LET found == {i \in 1..Len(prev) : prev[i].id = lastMessageId}
  IN IF found = {} THEN prev
     ELSE LET msgIndex == CHOOSE i \in found : \A j \in found : i <= j
          IN [prev EXCEPT ![msgIndex].content =
                            Append(prev[msgIndex].content, cleanContent)]

\* the content updater of lines 171-184
AppendContent(prev, lastMessageId, cleanContent) ==
  LET found == {i \in 1..Len(prev) : prev[i].id = lastMessageId}
  IN IF found = {} THEN prev
     ELSE LET msgIndex == CHOOSE i \in found : \A j \in found : i <= j
              existingContent == prev[msgIndex].content
              lastLine == IF existingContent = <<>> THEN <<>>
                          ELSE Last(existingContent)
          IN IF lastLine # cleanContent
             THEN [prev EXCEPT ![msgIndex].content =
                                  Append(existingContent, cleanContent)]
             ELSE prev

\* updaters that put a new turn in front of the list
RunUpdaterPrepend(prev, u, L) ==
  CASE u.fn \in {"value", "eager"} -> u.value
    [] u.fn = "agent" ->
         <<[id |-> L[u.loop].lastMessageId, agent |-> u.agentName,
            content |-> <<>>, origin |-> u.origin]>> \o prev
    [] u.fn = "status" ->
         <<[id |-> FreshId("status", prev), status |-> u.status,
            origin |-> u.origin]>> \o prev
    [] u.fn = "orchestrator" ->
         <<[id |-> L[u.loop].lastMessageId,
            agent |-> NameOf(L[u.loop].currentAgentName),
            content |-> <<>>, origin |-> u.origin]>> \o prev
    [] u.fn = "content" ->
         AppendContent(prev, L[u.loop].lastMessageId, u.cleanContent)
    [] u.fn = "stopped" ->
         <<[id |-> FreshId("stopped", prev), status |-> StoppedText,
            origin |-> u.origin]>> \o prev

\* One updater of messages, run on prev when React processes the queue; L
\* holds the locals of the invocations as they are at that moment.
RunUpdater(prev, u, L) ==
  CASE u.fn \in {"value", "eager"} -> u.value
    [] u.fn = "agent" ->
         Append(prev, [id |-> L[u.loop].lastMessageId, agent |-> u.agentName,
                       content |-> <<>>, origin |-> u.origin])
    [] u.fn = "status" ->
         Append(prev, [id |-> FreshId("status", prev), status |-> u.status,
                       origin |-> u.origin])
    [] u.fn = "orchestrator" ->
         Append(prev, [id |-> L[u.loop].lastMessageId,
                       agent |-> NameOf(L[u.loop].currentAgentName),
                       content |-> <<>>, origin |-> u.origin])
    [] u.fn = "content" ->
         AppendContent(prev, L[u.loop].lastMessageId, u.cleanContent)
    [] u.fn = "stopped" ->
         Append(prev, [id |-> FreshId("stopped", prev), status |-> StoppedText,
                       origin |-> u.origin])

RECURSIVE ProcessQueue(_, _, _)
\* The state React renders from state R after the updates q, in order.
ProcessQueue(R, q, L) ==
  IF q = <<>> THEN R
  ELSE LET u == Head(q)
           R2 == CASE u.hook = "messages" ->
                        [R EXCEPT !.messages = RunUpdater(R.messages, u, L)]
                   [] u.hook = "differential" ->
                        [R EXCEPT !.differential = u.value]
                   [] u.hook = "isStreaming" ->
                        [R EXCEPT !.isStreaming = u.value]
                   [] u.hook = "error" -> [R EXCEPT !.error = u.value]
       IN ProcessQueue(R2, Tail(q), L)

Rendered ==
  [messages |-> messages, differential |-> differential,
   isStreaming |-> isStreaming, error |-> error]

\* What the next render will show.
Pending == ProcessQueue(Rendered, queue, loops)


\* ----------------------------------------------------------- the read loop
\* setX(update) called from invocation s.  st is the invocation in progress:
\* its locals (loc), the queue (q), and whether React computes the first
\* update of an idle component at once (eager) instead of at the next render.
Enqueue(st, s, u) ==
  IF st.eager /\ st.q = <<>> /\ u.hook = "messages"
  THEN [st EXCEPT !.q = <<[hook |-> "messages", fn |-> "eager",
                           value |-> RunUpdater(messages, u,
                                       [loops EXCEPT ![s] = st.loc])]>>]
  ELSE [st EXCEPT !.q = Append(st.q, u)]

\* a differential branch that merges: the items of the snapshot shown so far
\* are kept in front of the new ones
DetectDifferentialMerge(st, s, content) ==
  IF HasMarker(content) /\ dxMatches(content) # <<>>
  THEN LET old == IF differential = None THEN <<>> ELSE differential[1].items
       IN Enqueue(st, s, [hook |-> "differential",
                          value |-> Some([items |-> old \o topDiagnoses(dxMatches(content)),
                                          full |-> content])])
  ELSE st

\* lines 103-119
DetectDifferential(st, s, content) ==
  IF HasMarker(content) /\ dxMatches(content) # <<>>
  THEN Enqueue(st, s, [hook |-> "differential",
                       value |-> Some([items |-> topDiagnoses(dxMatches(content)),
                                       full |-> content])])
  ELSE st

\* lines 122-137, for a line that matches the agent pattern
DetectAgent(st, s, agentName) ==
  IF st.loc.currentAgentName # Some(agentName)
  THEN LET loc2 == [st.loc EXCEPT
                      !.currentAgentName = Some(agentName),
                      !.lastMessageId = Some(<<"agent", s, st.loc.nid + 1>>),
                      !.nid = st.loc.nid + 1]
       IN Enqueue([st EXCEPT !.loc = loc2], s,
                  [hook |-> "messages", fn |-> "agent", loop |-> s,
                   agentName |-> agentName, origin |-> st.loc.lineNo])
  ELSE st

\* lines 152-161: !currentAgentName holds of null and of ''
DefaultOrchestrator(st, s) ==
  IF st.loc.currentAgentName \in {None, Some(<<>>)}
  THEN LET loc2 == [st.loc EXCEPT
                      !.currentAgentName = Some(Orchestrator),
                      !.lastMessageId = Some(<<"system", s, st.loc.nid + 1>>),
                      !.nid = st.loc.nid + 1]
       IN Enqueue([st EXCEPT !.loc = loc2], s,
                  [hook |-> "messages", fn |-> "orchestrator", loop |-> s,
                   origin |-> st.loc.lineNo])
  ELSE st

\* lines 163-185
AccumulateContent(st, s, content) ==
  IF IsBorderOnly(content) THEN st
  ELSE LET cleanContent == Trim(StripBox(content))
       IN IF cleanContent # <<>>
          THEN Enqueue(st, s, [hook |-> "messages", fn |-> "content",
                               loop |-> s, cleanContent |-> cleanContent])
          ELSE st

\* The body of the for loop as it would be with a `continue` closing the
\* differential branch: a recognised differential line ends there.
ProcessLineDifferentialLast(st0, s, line) ==
  LET st == [st0 EXCEPT !.loc.lineNo = st0.loc.lineNo + 1]
      trimmedLine == Trim(line)
  IN IF ~StartsWithData(trimmedLine) THEN st
     ELSE LET content == ContentOf(trimmedLine)
          IN IF content = <<>> THEN st
             ELSE IF HasMarker(content) /\ dxMatches(content) # <<>>
             THEN DetectDifferential(st, s, content)
             ELSE LET match == agentMatch(content)
                  IN IF match # None THEN DetectAgent(st, s, match[1])
                     ELSE IF IsStatusLine(content)
                     THEN Enqueue(st, s, [hook |-> "messages", fn |-> "status",
                                          status |-> content,
                                          origin |-> st.loc.lineNo])
                     ELSE AccumulateContent(DefaultOrchestrator(st, s), s, content)

\* lines 93-186: the body of the for loop, for one line
ProcessLine(st0, s, line) ==
  LET st == [st0 EXCEPT !.loc.lineNo = st0.loc.lineNo + 1]
      trimmedLine == Trim(line)
  IN IF ~StartsWithData(trimmedLine) THEN st
     ELSE LET content == ContentOf(trimmedLine)
          IN IF content = <<>> THEN st
             ELSE LET st1 == DetectDifferential(st, s, content)
                      match == agentMatch(content)
                  IN IF match # None THEN DetectAgent(st1, s, match[1])
                     ELSE IF IsStatusLine(content)
                     THEN Enqueue(st1, s, [hook |-> "messages", fn |-> "status",
                                           status |-> content,
                                           origin |-> st.loc.lineNo])
                     ELSE AccumulateContent(DefaultOrchestrator(st1, s), s, content)

\* a for loop that leaves after the first line of a chunk
ProcessLinesFirstOnly(st, s, lines) ==
  IF lines = <<>> THEN st ELSE ProcessLine(st, s, Head(lines))

RECURSIVE ProcessLines(_, _, _)
ProcessLines(st, s, lines) ==
  IF lines = <<>> THEN st
  ELSE ProcessLines(ProcessLine(st, s, Head(lines)), s, Tail(lines))

\* lines 89-91: the pieces of buffer + decoded chunk; the last piece is kept
Reassemble(buffer, text) ==
  LET pieces == Split(buffer \o text)
  IN [lines |-> Front(pieces), buffer |-> Last(pieces)]

\* lines 86-186: one resolved reader.read() with value = chunk, done = false
Feed(loc, q, s, chunk, eager) ==
  LET dec == DecodeUnits(loc.decoder, chunk)
      re == Reassemble(loc.buffer, dec.text)
      loc2 == [loc EXCEPT !.decoder = dec.pending, !.buffer = re.buffer]
  IN ProcessLines([loc |-> loc2, q |-> q, eager |-> eager], s, re.lines)

\* a finally block that leaves the streaming flag as it is
FinallyKeepsFlag(q) == q

\* lines 198-201
Finally(q) == Append(q, [hook |-> "isStreaming", value |-> FALSE])

\* ---------------------------------------------------------------- actions
Init ==
  /\ messages = <<>>
  /\ differential = None
  /\ isStreaming = FALSE
  /\ error = NoError
  /\ queue = <<>>
  /\ abortControllerRef = 0
  /\ loops = [s \in Sessions |-> IdleLoop]
  /\ nStarted = 0
  /\ fed = <<>>
  /\ used = 0

\* a start control that is offered in every state
StartAlwaysOffered == TRUE

\* lines 273-289: the button that calls startDiagnosis is rendered only
\* while isStreaming is false
StartButton == ~isStreaming

\* lines 273-280: the button that calls stopDiagnosis
StopButton == isStreaming

\* React renders: every queued update is applied, in order.  The locals of
\* an invocation that has returned are unreachable once no updater holds them.
Render ==
  /\ queue # <<>>
  /\ LET R == Pending
     IN /\ messages' = R.messages
        /\ differential' = R.differential
        /\ isStreaming' = R.isStreaming
        /\ error' = R.error
  /\ queue' = <<>>
  /\ loops' = [s \in Sessions |->
                 IF loops[s].pc \in Terminal
                 THEN [IdleLoop EXCEPT !.pc = loops[s].pc]
                 ELSE loops[s]]
  /\ UNCHANGED <<abortControllerRef, nStarted, fed, used>>

\* a reset that keeps the turn list and the snapshot of the session before
ResetKeepsTurns ==
  <<[hook |-> "error", value |-> NoError],
    [hook |-> "isStreaming", value |-> TRUE]>>

\* lines 60-63: setError(null); setIsStreaming(true); setMessages([]);
\* setDifferential(null)
ResetUpdates ==
  <<[hook |-> "error", value |-> NoError],
    [hook |-> "isStreaming", value |-> TRUE],
    [hook |-> "messages", fn |-> "value", value |-> <<>>],
    [hook |-> "differential", value |-> None]>>

\* a validation that rejects only when both fields are empty
MissingBoth(inputs) == inputs.initial_info = "" /\ inputs.full_case = ""

\* line 55: a required field is missing
MissingRequired(inputs) == inputs.initial_info = "" \/ inputs.full_case = ""

\* lines 54-66: a click on the start button.  The updates of a click are
\* rendered before the next event is handled.
startDiagnosis(inputs) ==
  /\ StartButton
  /\ IF MissingRequired(inputs)
     THEN /\ LET R == ProcessQueue(Rendered,
                        Append(queue, [hook |-> "error", value |-> ValidationError]),
                        loops)
             IN /\ messages' = R.messages
                /\ differential' = R.differential
                /\ isStreaming' = R.isStreaming
                /\ error' = R.error
          /\ queue' = <<>>
          /\ UNCHANGED <<abortControllerRef, loops, nStarted, fed, used>>
     ELSE /\ nStarted < MaxSessions
          /\ LET s == nStarted + 1
                 R == ProcessQueue(Rendered,
                        queue \o ResetUpdates,
                        loops)
             IN /\ messages' = R.messages
                /\ differential' = R.differential
                /\ isStreaming' = R.isStreaming
                /\ error' = R.error
                /\ queue' = <<>>
                /\ abortControllerRef' = s
                /\ loops' = [t \in Sessions |->
                               IF t = s
                               THEN [IdleLoop EXCEPT !.pc = "fetch",
                                                     !.body = Some(inputs)]
                               ELSE IF loops[t].pc \in Terminal THEN IdleLoop
                               ELSE loops[t]]
                /\ nStarted' = s
                /\ used' = used + Started(fed)
                /\ fed' = <<>>

\* lines 69-80: fetch resolves with response.ok
FetchOk(s) ==
  /\ loops[s].pc = "fetch"
  /\ ~loops[s].aborted
  /\ loops' = [loops EXCEPT ![s].pc = "read"]
  /\ UNCHANGED <<messages, differential, isStreaming, error, queue,
                 abortControllerRef, nStarted, fed, used>>

\* lines 69-78, 195-201: fetch rejects, or resolves with !response.ok
FetchFail(s) ==
  /\ loops[s].pc = "fetch"
  /\ ~loops[s].aborted
  /\ queue' = Finally(Append(queue, [hook |-> "error", value |-> BackendError]))
  /\ abortControllerRef' = 0
  /\ loops' = [loops EXCEPT ![s].pc = "failed"]
  /\ UNCHANGED <<messages, differential, isStreaming, error, nStarted, fed, used>>

\* lines 85-186: reader.read() resolves with a chunk
ReadChunk(s, chunk, eager) ==
  /\ loops[s].pc = "read"
  /\ ~loops[s].aborted
  /\ LET st == Feed(loops[s], queue, s, chunk, eager)
     IN /\ loops' = [loops EXCEPT ![s] = st.loc]
        /\ queue' = st.q
  /\ fed' = fed \o chunk
  /\ UNCHANGED <<messages, differential, isStreaming, error,
                 abortControllerRef, nStarted, used>>

\* an end of stream that first processes the pending fragment as a line
ReadDoneFlush(s) ==
  /\ loops[s].pc = "read"
  /\ ~loops[s].aborted
  /\ LET st == ProcessLine([loc |-> loops[s], q |-> queue, eager |-> FALSE],
                           s, loops[s].buffer)
     IN /\ queue' = Finally(st.q)
        /\ loops' = [loops EXCEPT ![s] = [st.loc EXCEPT !.pc = "completed"]]
  /\ abortControllerRef' = 0
  /\ UNCHANGED <<messages, differential, isStreaming, error, nStarted, fed, used>>

\* lines 86-87, 198-201: reader.read() resolves with done
ReadDone(s) ==
  /\ loops[s].pc = "read"
  /\ ~loops[s].aborted
  /\ queue' = Finally(queue)
  /\ abortControllerRef' = 0
  /\ loops' = [loops EXCEPT ![s].pc = "completed"]
  /\ UNCHANGED <<messages, differential, isStreaming, error, nStarted, fed, used>>

\* a catch block that treats every rejected read as a stop by the user
ReadFailAsStop(s) ==
  /\ loops[s].pc = "read"
  /\ ~loops[s].aborted
  /\ queue' = Finally(Append(queue, [hook |-> "messages", fn |-> "stopped",
                                     origin |-> loops[s].lineNo + 1]))
  /\ abortControllerRef' = 0
  /\ loops' = [loops EXCEPT ![s].pc = "failed"]
  /\ UNCHANGED <<messages, differential, isStreaming, error, nStarted, fed, used>>

\* lines 86, 195-201: reader.read() rejects with an error that is no abort
ReadFail(s) ==
  /\ loops[s].pc = "read"
  /\ ~loops[s].aborted
  /\ queue' = Finally(Append(queue, [hook |-> "error", value |-> BackendError]))
  /\ abortControllerRef' = 0
  /\ loops' = [loops EXCEPT ![s].pc = "failed"]
  /\ UNCHANGED <<messages, differential, isStreaming, error, nStarted, fed, used>>

\* a stop handler that appends the stopped marker itself, whatever the
\* abort handle holds
stopDiagnosisMarks ==
  /\ StopButton
  /\ loops' = IF abortControllerRef # 0
              THEN [loops EXCEPT ![abortControllerRef].aborted = TRUE]
              ELSE loops
  /\ queue' = Append(queue, [hook |-> "messages", fn |-> "stopped", origin |-> 0])
  /\ UNCHANGED <<messages, differential, isStreaming, error,
                 abortControllerRef, nStarted, fed, used>>

\* lines 204-208: a click on the stop button
stopDiagnosis ==
  /\ StopButton
  /\ loops' = IF abortControllerRef # 0
              THEN [loops EXCEPT ![abortControllerRef].aborted = TRUE]
              ELSE loops
  /\ UNCHANGED <<messages, differential, isStreaming, error, queue,
                 abortControllerRef, nStarted, fed, used>>

\* a catch block without the AbortError branch: an abort is reported like
\* any other failure
AbortCatchAsFailure(s) ==
  /\ loops[s].pc \in Running
  /\ loops[s].aborted
  /\ queue' = Finally(Append(queue, [hook |-> "error", value |-> BackendError]))
  /\ abortControllerRef' = 0
  /\ loops' = [loops EXCEPT ![s].pc = "canceled"]
  /\ UNCHANGED <<messages, differential, isStreaming, error, nStarted, fed, used>>

\* a catch block that appends the stopped marker twice
AbortCatchTwice(s) ==
  /\ loops[s].pc \in Running
  /\ loops[s].aborted
  /\ queue' = Finally(queue \o <<[hook |-> "messages", fn |-> "stopped",
                                  origin |-> loops[s].lineNo + 1],
                                 [hook |-> "messages", fn |-> "stopped",
                                  origin |-> loops[s].lineNo + 2]>>)
  /\ abortControllerRef' = 0
  /\ loops' = [loops EXCEPT ![s].pc = "canceled"]
  /\ UNCHANGED <<messages, differential, isStreaming, error, nStarted, fed, used>>

\* a catch block that swallows the rejection of an aborted read and leaves
\* the invocation where it was
AbortCatchSwallows(s) ==
  /\ loops[s].pc \in Running
  /\ loops[s].aborted
  /\ UNCHANGED vars

\* lines 188-201: the pending fetch or read of an aborted controller rejects
\* with an AbortError
AbortCatch(s) ==
  /\ loops[s].pc \in Running
  /\ loops[s].aborted
  /\ queue' = Finally(Append(queue, [hook |-> "messages", fn |-> "stopped",
                                     origin |-> loops[s].lineNo + 1]))
  /\ abortControllerRef' = 0
  /\ loops' = [loops EXCEPT ![s].pc = "canceled"]
  /\ UNCHANGED <<messages, differential, isStreaming, error, nStarted, fed, used>>

\* reader.read() resolves with a chunk of a body made of the lines of catalogue
Read(catalogue) ==
  \E s \in Sessions, eager \in BOOLEAN :
    \E chunk \in Chunks(catalogue, Last(Split(fed)),
                        MaxLines - used - Started(fed)) :
      ReadChunk(s, chunk, eager)

Next ==
  \/ Render
  \/ \E inputs \in Inputs : startDiagnosis(inputs)
  \/ stopDiagnosis
  \/ \E s \in Sessions : FetchOk(s)
  \/ \E s \in Sessions : FetchFail(s)
  \/ Read(FewLines)
  \/ \E s \in Sessions : ReadDone(s)
  \/ \E s \in Sessions : ReadFail(s)
  \/ \E s \in Sessions : AbortCatch(s)

\* The whole life cycle, over a body of few kinds of lines.
Spec == Init /\ [][Next]_vars

NextParse ==
  \/ Render
  \/ nStarted = 0 /\ \E inputs \in Inputs : startDiagnosis(inputs)
  \/ \E s \in Sessions : FetchOk(s)
  \/ Read(Lines)
  \/ \E s \in Sessions : ReadDone(s)

\* One invocation read to the end of the stream, over every kind of line.
SpecParse == Init /\ [][NextParse]_vars

\* Lines at the edges of the classification: no 'data: ' prefix, empty
\* payloads, a marker without items, a header whose name is blank.
EdgeLines ==
  { <<"DATA", "AGENT", "A">>,
    <<"DATA", "X">>,
    <<"DATA", "MARKU", "P1">>,
    <<"X">>,
    <<"DATA">>,
    <<"DATA", "ESC">>,
    <<"DATA", "MARKT">>,
    <<"DATA", "MARKT", "P2", "P3", "P4", "P1">>,
    <<"DATA", "AGENT", "SP", "BOX">> }

NextEdge ==
  \/ Render
  \/ nStarted = 0 /\ \E inputs \in Inputs : startDiagnosis(inputs)
  \/ \E s \in Sessions : FetchOk(s)
  \/ Read(EdgeLines)
  \/ \E s \in Sessions : ReadDone(s)

\* One invocation read to the end of the stream, over the edge lines.
SpecEdge == Init /\ [][NextEdge]_vars

\* ------------------------------------------------------------ observation
\* A turn as the claims compare turns: without its id and its origin.
TurnView(m) ==
  IF "agent" \in DOMAIN m THEN [agent |-> m.agent, content |-> m.content]
  ELSE [status |-> m.status]

View(ms) == [i \in 1..Len(ms) |-> TurnView(ms[i])]

IsAgentTurn(m) == "agent" \in DOMAIN m
IsStatusTurn(m) == "status" \in DOMAIN m

\* The complete lines of a body read so far.
CompleteLines(units) == Front(Split(DecodeUnits(<<>>, units).text))

RECURSIVE LineByLine(_, _, _)
\* The state rendered when every line arrives in a chunk of its own and is
\* rendered before the next chunk is read.
LineByLine(R, loc, lines) ==
  IF lines = <<>> THEN R
  ELSE LET st == ProcessLine([loc |-> loc, q |-> <<>>, eager |-> FALSE], 1,
                             Head(lines))
       IN LineByLine(ProcessQueue(R, st.q, [loops EXCEPT ![1] = st.loc]),
                     st.loc, Tail(lines))

Reference(units) ==
  LineByLine([messages |-> <<>>, differential |-> None,
              isStreaming |-> TRUE, error |-> NoError],
             [IdleLoop EXCEPT !.pc = "read"], CompleteLines(units))

\* ------------------------------------------------------------------ claims

PendingNext ==
  ProcessQueue([messages |-> messages', differential |-> differential',
                isStreaming |-> isStreaming', error |-> error'],
               queue', loops')

\* The complete lines the read loop processes in this step.
NewLines ==
  IF /\ fed' # fed
     /\ IsPrefix(fed, fed')
     /\ \E i \in (Len(fed) + 1)..Len(fed') : fed'[i] = "NL"
  THEN LET before == CompleteLines(fed)
           after == CompleteLines(fed')
       IN SubSeq(after, Len(before) + 1, Len(after))
  ELSE <<>>

\* This step processes exactly one complete line, and it is `line`.
OneLine(line) == NewLines = <<line>>

\* the payload of a data line, <<>> for a line that is ignored
Payload(line) ==
  IF StartsWithData(Trim(line)) THEN ContentOf(Trim(line)) ELSE <<>>

\* a line the differential detection recognises
IsDifferentialLine(line) ==
  /\ \E i \in 1..Len(Payload(line)) : Payload(line)[i] \in Markers
  /\ \E i \in 1..Len(Payload(line)) : Payload(line)[i] \in PairSyms

\* the snapshot of a recognised line: its first three items and its text
SnapshotOf(line) ==
  LET c == Payload(line)
      pairs == SelectSeq(c, LAMBDA t : t \in PairSyms)
      n == IF Len(pairs) > 3 THEN 3 ELSE Len(pairs)
  IN Some([items |-> [i \in 1..n |->
                        [diagnosis |-> PairLabel(pairs[i]),
                         probability |-> PairDigits(pairs[i]) \o "%"]],
           full |-> c])

\* the recognised differential lines of the catalogue
DifferentialLines == {l \in Lines : IsDifferentialLine(l)}

\* the locals of the invocation that is reading, as the claims see them
AgentContext(L) ==
  [s \in Sessions |-> <<L[s].currentAgentName, L[s].lastMessageId>>]

\* C2 (as claimed): a recognised differential line is terminal.  A step that
\* processes one such line replaces the snapshot and does nothing else: the
\* turn list the next render shows is the one it would have shown before,
\* and the current agent and current turn are unchanged.
C2_DifferentialTerminal ==
  [][\A l \in DifferentialLines :
       OneLine(l)
         => LET before == Pending
                after == PendingNext
            IN /\ after.differential = SnapshotOf(l)
               /\ View(after.messages) = View(before.messages)
               /\ AgentContext(loops') = AgentContext(loops)]_vars

\* C2 (amended): a recognised differential line replaces the snapshot by its
\* first three items and its text and is then classified like any other
\* line.  When it holds no agent header, begins with a status glyph and is
\* shorter than 150 characters, it appends exactly one StatusTurn carrying
\* the line and leaves the current agent and current turn unchanged; in no
\* case does it remove a turn or change a StatusTurn.
C2_DifferentialFallsThrough ==
  [][\A l \in DifferentialLines :
       OneLine(l)
         => LET c == Payload(l)
                before == Pending.messages
                after == PendingNext
            IN /\ after.differential = SnapshotOf(l)
               /\ (agentMatch(c) = None /\ IsStatusLine(c))
                    => /\ View(after.messages) = Append(View(before), [status |-> c])
                       /\ AgentContext(loops') = AgentContext(loops)
               /\ Len(after.messages) >= Len(before)
               /\ \A i \in 1..Len(before) :
                    IsStatusTurn(before[i])
                      => TurnView(after.messages[i]) = TurnView(before[i])]_vars

\* C2 witness: a rendered snapshot whose line is also shown as a StatusTurn.
C2_Witness ==
  /\ differential # None
  /\ \E i \in 1..Len(messages) :
       IsStatusTurn(messages[i]) /\ messages[i].status = differential[1].full

\* a data line whose payload is only box-drawing characters and filler
IsBorderLine(line) ==
  /\ Payload(line) # <<>>
  /\ \A i \in 1..Len(Payload(line)) : Payload(line)[i] \in BoxChars \cup Filler

\* the border lines of the catalogue
BorderLines == {l \in Lines : IsBorderLine(l)}

\* C3 (as claimed): a data line of box-drawing characters only is a no-op in
\* every reachable state, also before any agent turn exists: the turn list
\* keeps its length and contents and the current agent is unchanged.
C3_BorderLineNoOp ==
  [][\A l \in BorderLines :
       OneLine(l)
         => LET before == Pending.messages
                after == PendingNext.messages
            IN /\ View(after) = View(before)
               /\ Len(after) = Len(before)
               /\ AgentContext(loops') = AgentContext(loops)]_vars

\* the invocations whose fetch or read is pending
Active == {s \in Sessions : loops[s].pc \in Running}

\* C4: single logical stream.  At most one invocation has a fetch or read
\* pending; it is the latest one started, it owns the abort handle and the
\* streaming flag is set for it; every queued turn update belongs to it, and
\* nothing queued by an earlier invocation is pending when it begins.
C4_SingleActiveLoop ==
  /\ Cardinality(Active) <= 1
  /\ \A s \in Active :
       /\ s = nStarted
       /\ isStreaming
       /\ abortControllerRef = s
       /\ loops[s].lineNo = 0 => queue = <<>>
  /\ \A i \in 1..Len(queue) :
       "loop" \in DOMAIN queue[i] => queue[i].loop = nStarted

\* C4 witness: a second session is reading and has rendered a turn of its own.
C4_Witness ==
  /\ nStarted = 2
  /\ loops[2].pc = "read"
  /\ loops[1].pc \notin Running
  /\ Len(messages) > 0

\* C5: cancellation.  Once stop was clicked while a fetch or read is
\* pending, the only step that changes what will be rendered is the one
\* that ends the invocation in `canceled`; it appends exactly one StatusTurn
\* with the stopped marker after the turns recorded so far, which stay as
\* they are, sets no error, clears the streaming flag and the abort handle.
C5_CancelAppendsMarker ==
  [][\A s \in Sessions :
       (loops[s].pc \in Running /\ loops[s].aborted)
         => LET before == Pending
                after == PendingNext
            IN IF loops'[s].pc = loops[s].pc
               THEN after = before
               ELSE /\ loops'[s].pc = "canceled"
                    /\ Len(after.messages) = Len(before.messages) + 1
                    /\ SubSeq(after.messages, 1, Len(before.messages))
                         = before.messages
                    /\ TurnView(Last(after.messages)) = [status |-> StoppedText]
                    /\ after.error = NoError
                    /\ after.differential = before.differential
                    /\ ~after.isStreaming
                    /\ abortControllerRef' = 0]_vars

\* C5 witness: a canceled session, rendered, with turns recorded before the
\* marker.
C5_Witness ==
  /\ \E s \in Sessions : loops[s].pc = "canceled"
  /\ queue = <<>>
  /\ Len(messages) >= 2
  /\ TurnView(Last(messages)) = [status |-> StoppedText]
  /\ error = NoError
  /\ ~isStreaming

\* the content lines the catalogue can yield
ContentTexts == {<<"X">>, <<"Y">>}

NoAdjacentDuplicate(ms) ==
  \A i \in 1..Len(ms) :
    IsAgentTurn(ms[i])
      => \A k \in 1..(Len(ms[i].content) - 1) :
           ms[i].content[k] # ms[i].content[k + 1]

\* C6: adjacent-duplicate suppression.  No AgentTurn, rendered or about to
\* be rendered, holds two consecutive identical lines.  For every such turn
\* list and every turn a content line can be applied to: applying the line a
\* second time changes nothing, also with a StatusTurn appended in between;
\* the first application appends the line unless it equals the turn's last
\* line (so a line repeated non-adjacently is appended again), and no other
\* turn is touched.
C6_AdjacentDuplicateSuppression ==
  LET ms == Pending.messages
  IN /\ NoAdjacentDuplicate(messages)
     /\ NoAdjacentDuplicate(ms)
     /\ \A i \in 1..Len(ms), c \in ContentTexts :
          (IsAgentTurn(ms[i]) /\ \A j \in 1..(i - 1) : ms[j].id # ms[i].id)
            => LET id == ms[i].id
                   once == AppendContent(ms, id, c)
                   mark == [id |-> FreshId("status", once),
                            status |-> <<"EMO", "X">>, origin |-> 0]
               IN /\ AppendContent(once, id, c) = once
                  /\ AppendContent(Append(once, mark), id, c) = Append(once, mark)
                  /\ once[i].content =
                       IF ms[i].content # <<>> /\ Last(ms[i].content) = c
                       THEN ms[i].content
                       ELSE Append(ms[i].content, c)
                  /\ \A j \in 1..Len(ms) : j # i => once[j] = ms[j]

\* C6 witness: the same content line was read twice in a row, with a status
\* line between, and the rendered turn holds it once.
C6_Witness ==
  /\ queue = <<>>
  /\ CompleteLines(fed) = << <<"DATA", "X">>, <<"DATA", "EMO", "X">>, <<"DATA", "X">> >>
  /\ View(messages) = << [agent |-> Orchestrator, content |-> << <<"X">> >>],
                         [status |-> <<"EMO", "X">>] >>

\* the agent-header lines of the catalogue
HeaderLines ==
  {l \in Lines : Payload(l) # <<>> /\ agentMatch(Payload(l)) # None}

\* the invocation that is reading
Reader == CHOOSE s \in Sessions : loops[s].pc = "read"

\* C7 (as claimed): boundary collapse.  A step that processes one
\* agent-header line (one that is not also a differential line) naming the
\* current agent changes nothing; one naming another agent (or with no
\* current agent) makes what the next render shows the turns it would have
\* shown before followed by one AgentTurn of that name with empty content,
\* and makes that turn the current one, the one content lines are applied to.
C7_BoundaryCollapse ==
  [][\A l \in HeaderLines \ DifferentialLines :
       OneLine(l)
         => LET name == agentMatch(Payload(l))[1]
                before == Pending
                after == PendingNext
            IN IF loops[Reader].currentAgentName = Some(name)
               THEN /\ after = before
                    /\ AgentContext(loops') = AgentContext(loops)
               ELSE /\ View(after.messages)
                         = Append(View(before.messages),
                                  [agent |-> name, content |-> <<>>])
                    /\ after.differential = before.differential
                    /\ loops'[Reader].currentAgentName = Some(name)
                    /\ Last(after.messages).id = loops'[Reader].lastMessageId
                    /\ \A i \in 1..Len(before.messages) :
                         after.messages[i].id # loops'[Reader].lastMessageId]_vars

\* the snapshot of the last recognised differential line of lines, if any
LastSnapshot(lines) ==
  LET found == {i \in 1..Len(lines) : IsDifferentialLine(lines[i])}
  IN IF found = {} THEN None
     ELSE SnapshotOf(lines[CHOOSE i \in found : \A j \in found : j <= i])

\* C8: differential replace-not-merge.  After any sequence of lines the
\* snapshot about to be rendered is the first three items and the text of
\* the most recent recognised differential line, and null when there was
\* none; once rendered, the snapshot shown is that one.
C8_DifferentialReplace ==
  LET expected == LastSnapshot(CompleteLines(fed))
  IN /\ Pending.differential = expected
     /\ queue = <<>> => differential = expected

\* C8 witness: two differential lines with different items were read, and
\* the snapshot shown holds the three items of the second only.
C8_Witness ==
  /\ queue = <<>>
  /\ Len(CompleteLines(fed)) >= 2
  /\ CompleteLines(fed)[1] = <<"DATA", "MARKU", "P1">>
  /\ CompleteLines(fed)[2] = <<"DATA", "MARKT", "P2", "P3", "P4", "P1">>
  /\ differential # None
  /\ Len(differential[1].items) = MaxItems
  /\ differential[1].items[1].diagnosis = PairLabel("P2")
  /\ differential[1].full = <<"MARKT", "P2", "P3", "P4", "P1">>

\* Each turn records the number of the line (or, for the stopped marker, the
\* position after the last line read) that created it.
InArrivalOrder(ms) ==
  \A i, j \in 1..Len(ms) : i < j => ms[i].origin < ms[j].origin

\* C9: order preservation.  In the turn list, rendered or about to be
\* rendered, a turn at a lower index was created by an earlier line of the
\* stream than a turn at a higher index, and the stopped marker comes after
\* the turns of every line read.
C9_OrderPreserved ==
  /\ InArrivalOrder(messages)
  /\ InArrivalOrder(Pending.messages)

\* C9 witness: an agent turn, a status turn and the stopped marker, created
\* by three successive events, are rendered in that order.
C9_Witness ==
  /\ queue = <<>>
  /\ Len(messages) = 3
  /\ IsAgentTurn(messages[1])
  /\ IsStatusTurn(messages[2])
  /\ messages[2].origin > messages[1].origin
  /\ TurnView(messages[3]) = [status |-> StoppedText]

\* C10: validation failure.  A start with an empty initial_info or an empty
\* full_case reports the validation error and changes nothing else: the
\* turn list, the snapshot, the streaming flag, the abort handle and every
\* invocation are as before, and no request is begun; no invocation ever
\* holds a request body with an empty field.
C10_ValidationFailure ==
  [][/\ \A inputs \in Inputs :
          ((inputs.initial_info = "" \/ inputs.full_case = "")
             /\ startDiagnosis(inputs))
            => /\ error' = ValidationError
               /\ UNCHANGED <<messages, differential, isStreaming, queue,
                              abortControllerRef, loops, nStarted, fed, used>>
     /\ \A s \in Sessions :
          loops'[s].body # None
            => /\ loops'[s].body[1].initial_info # ""
               /\ loops'[s].body[1].full_case # ""]_vars

\* C10 witness: a start was rejected after a session had ended; the turns of
\* that session are still shown and nothing is streaming.
C10_Witness ==
  /\ error = ValidationError
  /\ Len(messages) > 0
  /\ ~isStreaming
  /\ abortControllerRef = 0
  /\ \E s \in Sessions : loops[s].pc \in Terminal
  /\ Active = {}

\* C11: session reset.  A start that passes validation leaves an empty turn
\* list, no snapshot, no error and nothing queued, with streaming set; the
\* new invocation begins with no current agent, no current turn id, an
\* empty fragment and a fresh decoder, and has processed no line.  From then
\* on every agent turn shown or about to be shown carries an id made by the
\* latest invocation, and the fragment of a reading invocation is the
\* unterminated tail of its own body.
C11_SessionReset ==
  [][/\ nStarted' # nStarted
          => /\ messages' = <<>>
             /\ differential' = None
             /\ error' = NoError
             /\ isStreaming'
             /\ queue' = <<>>
             /\ loops'[nStarted'].currentAgentName = None
             /\ loops'[nStarted'].lastMessageId = None
             /\ loops'[nStarted'].buffer = <<>>
             /\ loops'[nStarted'].decoder = <<>>
             /\ loops'[nStarted'].lineNo = 0
     /\ LET after == PendingNext.messages
        IN \A i \in 1..Len(after) :
             IsAgentTurn(after[i]) => after[i].id[1][2] = nStarted'
     /\ \A s \in Sessions :
          loops'[s].pc = "read"
            => loops'[s].buffer = Last(Split(DecodeUnits(<<>>, fed').text))]_vars

\* C11 witness: the second session has just begun reading, after a first
\* one that had read lines; nothing of the first is shown.
C11_Witness ==
  /\ nStarted = 2
  /\ used > 0
  /\ loops[2].pc = "read"
  /\ loops[2].lineNo = 0
  /\ messages = <<>>
  /\ differential = None
  /\ error = NoError

\* C12: transport failure.  The step in which a pending fetch or read ends
\* in `failed` leaves the turns and the snapshot about to be rendered as
\* they were (no stopped marker), sets the backend error, clears the
\* streaming flag and the abort handle; a failed invocation reads nothing
\* more and is not restarted: until the next start it stays `failed` and
\* the body read does not grow.
C12_TransportFailure ==
  [][\A s \in Sessions :
       /\ (loops[s].pc \in Running /\ loops'[s].pc = "failed")
            => LET before == Pending
                   after == PendingNext
               IN /\ after.messages = before.messages
                  /\ after.differential = before.differential
                  /\ after.error = BackendError
                  /\ ~after.isStreaming
                  /\ abortControllerRef' = 0
       /\ (loops[s].pc = "failed" /\ nStarted' = nStarted)
            => /\ loops'[s].pc = "failed"
               /\ fed' = fed
               /\ Active = {}]_vars

\* C12 witness: a read failed after turns were recorded; the error is shown
\* with these turns and no stopped marker.
C12_Witness ==
  /\ \E s \in Sessions : loops[s].pc = "failed"
  /\ queue = <<>>
  /\ error = BackendError
  /\ ~isStreaming
  /\ Len(messages) >= 2
  /\ \A i \in 1..Len(messages) :
       TurnView(messages[i]) # [status |-> StoppedText]

\* C13: terminal states are stable.  While no fetch or read is pending
\* (before the first start and after a session has ended) the abort handle
\* is empty, so a stop does nothing; and no step other than an accepted
\* start changes the turns or the snapshot about to be rendered, the body
\* read, or the state of an invocation.
C13_TerminalStable ==
  [][Active = {}
       => /\ abortControllerRef = 0
          /\ stopDiagnosis => UNCHANGED vars
          /\ nStarted' = nStarted
               => /\ PendingNext.messages = Pending.messages
                  /\ PendingNext.differential = Pending.differential
                  /\ fed' = fed
                  /\ \A s \in Sessions : loops'[s].pc = loops[s].pc]_vars

\* C13 witness: a session has completed with turns recorded and its last
\* updates are not rendered yet, so the stop button is still shown.
C13_Witness ==
  /\ \E s \in Sessions : loops[s].pc = "completed"
  /\ Active = {}
  /\ StopButton
  /\ queue # <<>>
  /\ Len(Pending.messages) > 0
  /\ Pending.differential # None

\* the lines that are no events: no 'data: ' prefix, 'data: ' with nothing
\* after it, or a payload of colour sequences only
IgnoredLines == { <<"X">>, <<"DATA">>, <<"DATA", "ESC">> }

\* C14: non-event lines are ignored.  A step that processes one line without
\* the 'data: ' prefix, or with an empty payload once the prefix and the
\* colour sequences are removed, queues nothing and leaves the turns and
\* the snapshot about to be rendered, the current agent and the current
\* turn id as they were.
C14_NonEventIgnored ==
  [][\A l \in IgnoredLines :
       OneLine(l)
         => /\ queue' = queue
            /\ PendingNext = Pending
            /\ AgentContext(loops') = AgentContext(loops)]_vars

\* C14 witness: a content line followed by two ignored lines; only the
\* content line shows.
C14_Witness ==
  /\ queue = <<>>
  /\ CompleteLines(fed) = << <<"DATA", "X">>, <<"DATA", "ESC">>, <<"X">> >>
  /\ View(messages) = << [agent |-> Orchestrator, content |-> << <<"X">> >>] >>

\* C15: a stop never truncates a chunk.  Whenever an invocation awaits a
\* read, stopped or not, it has processed every complete line of the body
\* read so far; the step that ends it in `canceled` finds all of them
\* processed and puts the stopped marker behind the turns they produced;
\* and what is rendered changes only in steps that render everything
\* queued, so no chunk is ever shown partly applied.
C15_NoTruncatedChunk ==
  [][/\ \A s \in Sessions :
          /\ loops'[s].pc = "read"
               => loops'[s].lineNo = Len(CompleteLines(fed'))
          /\ (loops[s].pc \in Running /\ loops'[s].pc = "canceled")
               => /\ loops[s].lineNo = Len(CompleteLines(fed))
                  /\ fed' = fed
                  /\ Front(PendingNext.messages) = Pending.messages
                  /\ TurnView(Last(PendingNext.messages)) = [status |-> StoppedText]
     /\ (messages' # messages \/ differential' # differential)
          => queue' = <<>>]_vars

\* C15 witness: two lines were read, the session was stopped, and the turn
\* list shows what both lines produced, then the stopped marker.
C15_Witness ==
  /\ \E s \in Sessions : loops[s].pc = "canceled"
  /\ queue = <<>>
  /\ CompleteLines(fed) = << <<"DATA", "AGENT", "SP", "A", "BOX">>, <<"DATA", "X">> >>
  /\ View(messages) = << [agent |-> <<"A">>, content |-> << <<"X">> >>],
                         [status |-> StoppedText] >>

\* new is old with content appended to agent turns and turns appended
Extends(old, new) ==
  /\ Len(old) <= Len(new)
  /\ \A i \in 1..Len(old) :
       /\ new[i].id = old[i].id
       /\ IsAgentTurn(new[i]) = IsAgentTurn(old[i])
       /\ IsAgentTurn(old[i])
            => /\ new[i].agent = old[i].agent
               /\ IsPrefix(old[i].content, new[i].content)
       /\ IsStatusTurn(old[i]) => new[i].status = old[i].status

\* C16: within a session the turn list is append-only.  In every step that
\* is not an accepted start, the turn list shown after the step has the
\* turns shown before it at the same positions, with the same id, kind and
\* agent name, a StatusTurn with the same text and an AgentTurn with its old
\* content as a prefix of the new.
C16_AppendOnly ==
  [][nStarted' = nStarted => Extends(messages, messages')]_vars

\* C16 witness: an agent turn whose content has grown to two lines is shown,
\* followed by a later turn.
C16_Witness ==
  /\ queue = <<>>
  /\ Len(messages) >= 2
  /\ IsAgentTurn(messages[1])
  /\ Len(messages[1].content) = 2

\* the lines that are status lines and no agent headers
StatusLines ==
  {l \in Lines : /\ Payload(l) # <<>>
                 /\ agentMatch(Payload(l)) = None
                 /\ IsStatusLine(Payload(l))}

\* the lines whose text is accumulated as content
ContentLines ==
  {l \in Lines : /\ Payload(l) # <<>>
                 /\ agentMatch(Payload(l)) = None
                 /\ ~IsStatusLine(Payload(l))
                 /\ ~IsBorderOnly(Payload(l))
                 /\ Trim(StripBox(Payload(l))) # <<>>}

\* the index of the most recently created AgentTurn of ms, 0 if none
LastAgentTurn(ms) ==
  LET found == {i \in 1..Len(ms) : IsAgentTurn(ms[i])}
  IN IF found = {} THEN 0 ELSE CHOOSE i \in found : \A j \in found : j <= i

\* C17 (as claimed): a StatusTurn does not become the current turn.  A step
\* that processes one status line appends one StatusTurn with its text and
\* leaves the current agent and the current turn id unchanged; a step that
\* processes one content line while an agent is current appends the text to
\* the most recently created AgentTurn, wherever it stands in the list
\* (unless it repeats that turn's last line), and changes no other turn.
C17_StatusNotCurrent ==
  [][/\ \A l \in StatusLines :
          OneLine(l)
            => /\ View(PendingNext.messages)
                    = Append(View(Pending.messages), [status |-> Payload(l)])
               /\ AgentContext(loops') = AgentContext(loops)
     /\ \A l \in ContentLines :
          (OneLine(l) /\ loops[Reader].currentAgentName \notin {None, Some(<<>>)})
            => LET before == Pending.messages
                   after == PendingNext.messages
                   k == LastAgentTurn(before)
                   c == Trim(StripBox(Payload(l)))
               IN /\ k > 0
                  /\ Len(after) = Len(before)
                  /\ after[k].content
                       = IF before[k].content # <<>> /\ Last(before[k].content) = c
                         THEN before[k].content
                         ELSE Append(before[k].content, c)
                  /\ \A i \in 1..Len(before) :
                       i # k => TurnView(after[i]) = TurnView(before[i])]_vars

\* a line whose text is accumulated as content
IsContentLine(l) ==
  /\ Payload(l) # <<>>
  /\ agentMatch(Payload(l)) = None
  /\ ~IsStatusLine(Payload(l))
  /\ ~IsBorderOnly(Payload(l))
  /\ Trim(StripBox(Payload(l))) # <<>>

\* the number of turns of ms that carry the default name
Synthesized(ms) ==
  Cardinality({i \in 1..Len(ms) :
                 IsAgentTurn(ms[i]) /\ ms[i].agent = Orchestrator})

\* C18 (as claimed): default orchestrator turn.  A step that processes one
\* content line while no agent turn exists appends exactly one AgentTurn
\* named 'System Orchestrator' whose content is that line; a step that
\* processes one line that is no content line adds no such turn; and at no
\* time does the turn list of a session hold more than one.
C18_DefaultOrchestratorOnce ==
  [][/\ \A l \in EdgeLines :
          OneLine(l)
            => LET before == Pending.messages
                   after == PendingNext.messages
               IN IF IsContentLine(l)
                  THEN LastAgentTurn(before) = 0
                         => View(after)
                              = Append(View(before),
                                       [agent |-> Orchestrator,
                                        content |-> <<Trim(StripBox(Payload(l)))>>])
                  ELSE Synthesized(after) = Synthesized(before)
     /\ Synthesized(PendingNext.messages) <= 1]_vars

\* units up to and including the last line terminator
UpToLastNL(units) ==
  LET found == {i \in 1..Len(units) : units[i] = "NL"}
  IN IF found = {} THEN <<>>
     ELSE SubSeq(units, 1, CHOOSE i \in found : \A j \in found : j <= i)

\* C19: an unterminated trailing fragment is dropped.  A read has the
\* effect of the same chunk cut after its last line terminator: what follows
\* the last terminator queues nothing and changes neither the current agent
\* nor the current turn id; and the end of the stream classifies nothing,
\* whatever the pending fragment holds: the turns and the snapshot about to
\* be rendered stay as they were and no error is set.
C19_TrailingFragmentDropped ==
  [][\A s \in Sessions :
       /\ (loops[s].pc = "read" /\ loops'[s].pc = "read" /\ fed' # fed)
            => LET cut == UpToLastNL(SubSeq(fed', Len(fed) + 1, Len(fed')))
               IN \E eager \in BOOLEAN :
                    LET st == Feed(loops[s], queue, s, cut, eager)
                    IN /\ queue' = st.q
                       /\ loops'[s].currentAgentName = st.loc.currentAgentName
                       /\ loops'[s].lastMessageId = st.loc.lastMessageId
                       /\ loops'[s].lineNo = st.loc.lineNo
       /\ (loops[s].pc = "read" /\ loops'[s].pc = "completed")
            => /\ PendingNext.messages = Pending.messages
               /\ PendingNext.differential = Pending.differential
               /\ PendingNext.error = NoError
               /\ ~PendingNext.isStreaming]_vars

\* C19 witness: the stream ended after a header line and an unterminated
\* content line; the content does not show.
C19_Witness ==
  /\ \E s \in Sessions : loops[s].pc = "completed"
  /\ queue = <<>>
  /\ fed = <<"DATA", "AGENT", "SP", "A", "BOX", "NL", "DATA", "X">>
  /\ View(messages) = << [agent |-> <<"A">>, content |-> <<>>] >>

\* the lines that hold a differential marker and no item
MarkerOnlyLines == { <<"DATA", "MARKT">> }

\* d is null, or one to three items with the raw line they come from: the
\* first items of that line, in its order
WellShaped(d) ==
  \/ d = None
  \/ LET items == d[1].items
         pairs == SelectSeq(d[1].full, LAMBDA t : t \in PairSyms)
     IN /\ Len(items) >= 1
        /\ Len(items) <= 3
        /\ Len(items) <= Len(pairs)
        /\ Len(items) = 3 \/ Len(items) = Len(pairs)
        /\ \A i \in 1..Len(items) :
             /\ items[i].diagnosis = PairLabel(pairs[i])
             /\ items[i].probability = PairDigits(pairs[i]) \o "%"

\* C20: snapshot shape.  The snapshot, rendered or about to be rendered, is
\* null or holds one to three items, the first of its originating line in
\* that line's order, with the raw line; a step that processes one line
\* with a differential marker and no item leaves it unchanged.
C20_SnapshotShape ==
  [][/\ WellShaped(differential')
     /\ WellShaped(PendingNext.differential)
     /\ \A l \in MarkerOnlyLines :
          OneLine(l) => PendingNext.differential = Pending.differential]_vars

\* C20 witness: a line with four items, then a marker without items; the
\* snapshot shown holds the first three items of the former.
C20_Witness ==
  /\ queue = <<>>
  /\ CompleteLines(fed) = << <<"DATA", "MARKT", "P2", "P3", "P4", "P1">>,
                             <<"DATA", "MARKT">> >>
  /\ differential # None
  /\ Len(differential[1].items) = 3
  /\ differential[1].items[3].diagnosis = PairLabel("P4")
  /\ differential[1].full = <<"MARKT", "P2", "P3", "P4", "P1">>

\* the agent names of ms in order, StatusTurns left out
AgentNames(ms) ==
  LET turns == SelectSeq(ms, IsAgentTurn)
  IN [i \in 1..Len(turns) |-> turns[i].agent]

\* C21 (as claimed): no two successive AgentTurns carry the same agent
\* name.  In the turn list shown, with the StatusTurns left out, any two
\* neighbouring AgentTurns have different agent names.
C21_NoRepeatedAgent ==
  LET names == AgentNames(messages)
  IN \A i \in 1..(Len(names) - 1) : names[i] # names[i + 1]

\* C22: the streaming flag and the abort handle track the invocation.  The
\* abort handle is set exactly while a fetch or read is pending, and holds
\* that invocation; the streaming flag, as queued, is true exactly then; the
\* flag as rendered is true while a fetch or read is pending, and once
\* everything queued is rendered it is false whenever none is.
C22_FlagAndHandleTrack ==
  /\ (Active # {}) <=> (abortControllerRef # 0)
  /\ abortControllerRef # 0 => abortControllerRef \in Active
  /\ (Active # {}) <=> Pending.isStreaming
  /\ Active # {} => isStreaming
  /\ queue = <<>> => (isStreaming <=> Active # {})

\* C22 witness: the second session has ended after a stop and is rendered;
\* the flag is false and the handle empty.
C22_Witness ==
  /\ nStarted = 2
  /\ loops[2].pc = "canceled"
  /\ queue = <<>>
  /\ ~isStreaming
  /\ abortControllerRef = 0

\* the positions of ms that hold the stopped marker
StoppedAt(ms) ==
  {i \in 1..Len(ms) : IsStatusTurn(ms[i]) /\ ms[i].status = StoppedText}

\* C23: the stopped marker.  In the turn list, rendered or about to be
\* rendered, the marker stands at most once, and then as the last element
\* and in a session that ended `canceled`; a session that ended `completed`
\* or `failed` holds none; and a canceled session shows no backend error
\* (the only message that can appear beside it is that of a later start
\* rejected by validation).
C23_StoppedMarker ==
  /\ \A ms \in {messages, Pending.messages} :
       /\ Cardinality(StoppedAt(ms)) <= 1
       /\ StoppedAt(ms) \subseteq {Len(ms)}
  /\ StoppedAt(Pending.messages) # {}
       => /\ nStarted > 0
          /\ loops[nStarted].pc = "canceled"
  /\ \A s \in Sessions :
       /\ loops[s].pc \in {"completed", "failed"}
            => StoppedAt(Pending.messages) = {}
       /\ loops[s].pc = "canceled"
            => /\ StoppedAt(Pending.messages) = {Len(Pending.messages)}
               /\ Pending.error # BackendError
               /\ error # BackendError

\* C23 witness: the second session was stopped after a line was read; its
\* list ends with the one marker and no error shows.
C23_Witness ==
  /\ nStarted = 2
  /\ loops[2].pc = "canceled"
  /\ queue = <<>>
  /\ Len(messages) >= 2
  /\ StoppedAt(messages) = {Len(messages)}
  /\ error = NoError

\* lines 69-78, 86-87, 188-201: the transport answers the pending fetch or
\* read of session s with something other than one more chunk: a response,
\* the end of the stream, a failure, or the rejection that follows an abort.
\* The body being finite, every pending fetch or read eventually gets such
\* an answer.
Answer(s) ==
  \/ FetchOk(s)
  \/ FetchFail(s)
  \/ ReadDone(s)
  \/ ReadFail(s)
  \/ AbortCatch(s)

\* The life cycle under the scheduling the program runs on: the transport
\* answers every pending fetch or read and the body ends, and React
\* eventually renders the updates it holds.
SpecLive ==
  /\ Init
  /\ [][Next]_vars
  /\ \A s \in Sessions : WF_vars(Answer(s))
  /\ WF_vars(Render)

\* C24: termination.  Every session whose fetch or read is pending
\* eventually stands in one of `completed`, `canceled`, `failed` with the
\* streaming flag rendered false and the handle empty; the answer that ends
\* the stream (end, failure, abort) leaves the session in that state in the
\* same step, with the clearing of the flag queued; and a session that has
\* ended never streams again.
C24_Termination ==
  /\ \A s \in Sessions :
       (loops[s].pc \in Running)
         ~> (loops[s].pc \in Terminal /\ ~isStreaming /\ abortControllerRef = 0)
  /\ [][\A s \in Sessions :
          /\ (loops[s].pc \in Running /\ loops'[s].pc \notin Running)
               => /\ loops'[s].pc \in Terminal
                  /\ ~Pending'.isStreaming
                  /\ abortControllerRef' = 0
          /\ loops[s].pc \in Terminal => loops'[s].pc \notin Running]_vars

\* C24 witness: the first session read a line, met the end of the stream and
\* the cleared flag has been rendered.
C24_Witness ==
  /\ nStarted = 1
  /\ loops[1].pc = "completed"
  /\ Len(messages) >= 1
  /\ ~isStreaming
  /\ abortControllerRef = 0
  /\ queue = <<>>

====
